---- MODULE Spec2Model ----
(***************************************************************************)
(* Guitar Scale Visualizer (musician-fretboard-app.py).                    *)
(*                                                                         *)
(* Note names are Python strings.  They are modelled as sequences of       *)
(* one-character strings, so that '/' in s, s.split('/') and string        *)
(* equality are computed the way Python computes them.  Mode names are     *)
(* only ever used as dictionary keys and stay plain strings.               *)
(*                                                                         *)
(* A Python call either returns a value or raises; an outcome is the       *)
(* record [exc, val] with exc = "none" for a normal return.                *)
(***************************************************************************)
EXTENDS Integers, Sequences, FiniteSets, TLC

VARIABLES
    pc,             \* position of the script run
    selected_note,  \* module-level selected_note (after lines 93-96)
    selected_mode,  \* module-level selected_mode (line 98)
    scale_notes,    \* display_fretboard's local scale_notes (an outcome)
    string,         \* index into GUITAR_TUNING of the row being rendered (1-based)
    fret,           \* fret of the next cell to render
    cells,          \* what has been rendered at each fretboard position
    notes_line,     \* the "Notes in this scale" line (line 126), an outcome
    call,           \* scale-engine harness: the function applied and its arguments
    result          \* scale-engine harness: the outcome of the call

vars == <<pc, selected_note, selected_mode, scale_notes, string, fret, cells,
          notes_line, call, result>>

appVars == <<pc, selected_note, selected_mode, scale_notes, string, fret, cells,
             notes_line>>

-----------------------------------------------------------------------------
(* Python values and outcomes *)

Return(v) == [exc |-> "none", val |-> v]

Raise(e) == [exc |-> e, val |-> <<>>]

Returned(o) == o.exc = "none"

\* x in lst
In(x, lst) == \E i \in 1..Len(lst) : lst[i] = x

\* lst.index(x): 0-based position of the first occurrence, ValueError when absent
list_index(lst, x) ==
    IF In(x, lst)
    THEN Return((CHOOSE i \in 1..Len(lst) :
                    lst[i] = x /\ \A j \in 1..(i - 1) : lst[j] # x) - 1)
    ELSE Raise("ValueError")

\* '/' in s
HasSlash(s) == In("/", s)

\* s.split('/')
RECURSIVE split(_)
split(s) ==
    IF ~HasSlash(s)
    THEN <<s>>
    ELSE LET i == CHOOSE k \in 1..Len(s) :
                      s[k] = "/" /\ \A j \in 1..(k - 1) : s[j] # "/"
         IN  <<SubSeq(s, 1, i - 1)>> \o split(SubSeq(s, i + 1, Len(s)))

-----------------------------------------------------------------------------
(* Module-level tables *)

NOTES ==
    << <<"C">>, <<"C", "#", "/", "D", "b">>, <<"D">>, <<"D", "#", "/", "E", "b">>,
       <<"E">>, <<"F">>, <<"F", "#", "/", "G", "b">>, <<"G">>,
       <<"G", "#", "/", "A", "b">>, <<"A">>, <<"A", "#", "/", "B", "b">>, <<"B">> >>

MODES ==
    ("Major (Ionian)"   :> <<0, 2, 4, 5, 7, 9, 11>>) @@
    ("Dorian"           :> <<0, 2, 3, 5, 7, 9, 10>>) @@
    ("Phrygian"         :> <<0, 1, 3, 5, 7, 8, 10>>) @@
    ("Lydian"           :> <<0, 2, 4, 6, 7, 9, 11>>) @@
    ("Mixolydian"       :> <<0, 2, 4, 5, 7, 9, 10>>) @@
    ("Minor (Aeolian)"  :> <<0, 2, 3, 5, 7, 8, 10>>) @@
    ("Locrian"          :> <<0, 1, 3, 5, 6, 8, 10>>) @@
    ("Pentatonic Major" :> <<0, 2, 4, 7, 9>>) @@
    ("Pentatonic Minor" :> <<0, 3, 5, 7, 10>>) @@
    ("Blues"            :> <<0, 3, 5, 6, 7, 10>>)

GUITAR_TUNING == << <<"E">>, <<"B">>, <<"G">>, <<"D">>, <<"A">>, <<"E">> >>

NUM_FRETS == 15

display_notes ==
    << <<"C">>, <<"C", "#">>, <<"D">>, <<"D", "#">>, <<"E">>, <<"F">>,
       <<"F", "#">>, <<"G">>, <<"G", "#">>, <<"A">>, <<"A", "#">>, <<"B">> >>

note_mapping ==
    (<<"C", "#">> :> <<"C", "#", "/", "D", "b">>) @@
    (<<"D", "#">> :> <<"D", "#", "/", "E", "b">>) @@
    (<<"F", "#">> :> <<"F", "#", "/", "G", "b">>) @@
    (<<"G", "#">> :> <<"G", "#", "/", "A", "b">>) @@
    (<<"A", "#">> :> <<"A", "#", "/", "B", "b">>)

-----------------------------------------------------------------------------
(* The scale engine *)

\* start_index = NOTES.index(n) if n in NOTES else NOTES.index(n.split('/')[0])
start_index(n) ==
    IF In(n, NOTES) THEN list_index(NOTES, n) ELSE list_index(NOTES, split(n)[1])

get_note_at_position_clamped(string_note, fret_no) ==
    LET start == start_index(string_note)
    IN  IF ~Returned(start)
        THEN Raise(start.exc)
        ELSE LET i == start.val + fret_no
             IN  Return(NOTES[(IF i > 11 THEN 11 ELSE i) + 1])

get_note_at_position(string_note, fret_no) ==
    LET start == start_index(string_note)
    IN  IF ~Returned(start)
        THEN Raise(start.exc)
        ELSE Return(NOTES[((start.val + fret_no) % 12) + 1])

\* the scale as a filter over NOTES: chromatic order instead of interval order
get_scale_notes_chromatic(root_note, mode) ==
    LET start == start_index(root_note)
    IN  IF ~Returned(start) THEN Raise(start.exc)
        ELSE IF mode \notin DOMAIN MODES THEN Raise("KeyError")
        ELSE LET ivs  == MODES[mode]
                 inSc == {j \in 1..12 :
                            \E k \in 1..Len(ivs) : (start.val + ivs[k]) % 12 = j - 1}
                 nth  == [k \in 1..Cardinality(inSc) |->
                            CHOOSE j \in inSc :
                                Cardinality({h \in inSc : h < j}) = k - 1]
             IN  Return([k \in 1..Cardinality(inSc) |-> NOTES[nth[k]]])

\* the scale without its last interval
get_scale_notes_short(root_note, mode) ==
    LET start == start_index(root_note)
    IN  IF ~Returned(start) THEN Raise(start.exc)
        ELSE IF mode \notin DOMAIN MODES THEN Raise("KeyError")
        ELSE Return([k \in 1..(Len(MODES[mode]) - 1) |->
                        NOTES[((start.val + MODES[mode][k]) % 12) + 1]])

\* the scale with the 0-based root index taken as 1-based
get_scale_notes_shifted(root_note, mode) ==
    LET start == start_index(root_note)
    IN  IF ~Returned(start) THEN Raise(start.exc)
        ELSE IF mode \notin DOMAIN MODES THEN Raise("KeyError")
        ELSE Return([k \in 1..Len(MODES[mode]) |->
                        NOTES[((start.val + 1 + MODES[mode][k]) % 12) + 1]])

get_scale_notes(root_note, mode) ==
    LET start == start_index(root_note)
    IN  IF ~Returned(start) THEN Raise(start.exc)
        ELSE IF mode \notin DOMAIN MODES THEN Raise("KeyError")
        ELSE Return([k \in 1..Len(MODES[mode]) |->
                        NOTES[((start.val + MODES[mode][k]) % 12) + 1]])

is_note_in_scale(note, scale) ==
    IF HasSlash(note)
    THEN In(split(note)[1], scale) \/ In(split(note)[2], scale)
    ELSE In(note, scale)

is_root_exact(note, root_note) == note = root_note

\* line 70: note == root_note or (('/' in note) and (root_note in note.split('/')))
is_root(note, root_note) ==
    note = root_note \/ (HasSlash(note) /\ In(root_note, split(note)))

-----------------------------------------------------------------------------
(* The script run: widgets (93-98), display_fretboard (49-78), legend and      *)
(* scale line (114-142).  Streamlit runs the script once on page load with     *)
(* each selectbox at its first option and again after every widget change.     *)

Pending == [exc |-> "pending", val |-> <<>>]

Positions == (1..Len(GUITAR_TUNING)) \X (0..(NUM_FRETS - 1))

BlankCell == [note |-> <<>>, is_root |-> FALSE, in_scale |-> FALSE, style |-> "none"]

NoCall ==
    [fn |-> "none", note |-> <<>>, fret |-> 0, mode |-> "", root_note |-> <<>>,
     scale_notes |-> <<>>]

\* lines 93-96: the selectbox value, mapped to its internal representation
normalize(d) == IF d \in DOMAIN note_mapping THEN note_mapping[d] ELSE d

Init ==
    /\ pc = "display"
    /\ selected_note = normalize(display_notes[1])
    /\ selected_mode = "Major (Ionian)"
    /\ scale_notes = Pending
    /\ string = 1
    /\ fret = 0
    /\ cells = [p \in Positions |-> BlankCell]
    /\ notes_line = Pending
    /\ call = NoCall
    /\ result = Pending

\* display_fretboard, lines 51-59: the scale and the header row
DisplayFretboard ==
    /\ pc = "display"
    /\ scale_notes' = get_scale_notes(selected_note, selected_mode)
    /\ pc' = IF Returned(scale_notes') THEN "render" ELSE "error"
    /\ string' = 1
    /\ fret' = 0
    /\ UNCHANGED <<selected_note, selected_mode, cells, notes_line, call, result>>

\* display_fretboard, lines 62-78: one iteration of the inner loop
RenderCell ==
    /\ pc = "render"
    /\ LET o == get_note_at_position(GUITAR_TUNING[string], fret)
       IN  IF ~Returned(o)
           THEN /\ pc' = "error"
                /\ UNCHANGED <<string, fret, cells>>
           ELSE LET note   == o.val
                    isroot == is_root(note, selected_note)
                    insc   == is_note_in_scale(note, scale_notes.val)
                    style  == IF insc THEN (IF isroot THEN "root" ELSE "scale")
                                      ELSE "plain"
                IN  /\ cells' = [cells EXCEPT ![<<string, fret>>] =
                                    [note |-> note, is_root |-> isroot,
                                     in_scale |-> insc, style |-> style]]
                    /\ IF fret < NUM_FRETS - 1
                       THEN /\ fret' = fret + 1
                            /\ UNCHANGED <<string, pc>>
                       ELSE IF string < Len(GUITAR_TUNING)
                       THEN /\ string' = string + 1
                            /\ fret' = 0
                            /\ UNCHANGED pc
                       ELSE /\ pc' = "legend"
                            /\ UNCHANGED <<string, fret>>
    /\ UNCHANGED <<selected_note, selected_mode, scale_notes, notes_line, call, result>>

\* lines 114-142: legend, "Notes in this scale", mode explanation
ShowLegend ==
    /\ pc = "legend"
    /\ notes_line' = get_scale_notes(selected_note, selected_mode)
    /\ pc' = IF Returned(notes_line') THEN "done" ELSE "error"
    /\ UNCHANGED <<selected_note, selected_mode, scale_notes, string, fret, cells,
                   call, result>>

\* a widget change reruns the script from the top: lines 93-98 with the new choice
Rerun ==
    /\ pc = "done"
    /\ \E d \in 1..Len(display_notes), m \in DOMAIN MODES :
          /\ selected_note' = normalize(display_notes[d])
          /\ selected_mode' = m
    /\ pc' = "display"
    /\ scale_notes' = Pending
    /\ string' = 1
    /\ fret' = 0
    /\ cells' = [p \in Positions |-> BlankCell]
    /\ notes_line' = Pending
    /\ UNCHANGED <<call, result>>

Next == DisplayFretboard \/ RenderCell \/ ShowLegend \/ Rerun

Spec == Init /\ [][Next]_vars

-----------------------------------------------------------------------------
(* The scale engine on its own: one call of one function, its arguments drawn *)
(* from bounded sets.                                                         *)

MaxFret == 14

Canonical == {NOTES[i] : i \in 1..Len(NOTES)}

\* the two spellings of each enharmonic pair
Spellings ==
    { <<(<<"C", "#">>), (<<"D", "b">>)>>, <<(<<"D", "#">>), (<<"E", "b">>)>>,
      <<(<<"F", "#">>), (<<"G", "b">>)>>, <<(<<"G", "#">>), (<<"A", "b">>)>>,
      <<(<<"A", "#">>), (<<"B", "b">>)>> }

PairName(sp) == sp[1] \o <<"/">> \o sp[2]

FirstHalves == {sp[1] : sp \in Spellings}

SecondHalves == {sp[2] : sp \in Spellings}

\* "H", "C/zz", "E/Db", "C#/zz", ""
BadNames ==
    { <<"H">>, <<"C", "/", "z", "z">>, <<"E", "/", "D", "b">>,
      <<"C", "#", "/", "z", "z">>, <<>> }

NoteInputs == Canonical \cup FirstHalves \cup SecondHalves \cup BadNames

\* ["C#/Db","D","E","F","G","A","A#/Bb"]
ExampleScale ==
    << <<"C", "#", "/", "D", "b">>, <<"D">>, <<"E">>, <<"F">>, <<"G">>, <<"A">>,
       <<"A", "#", "/", "B", "b">> >>

ScaleInputs ==
    {get_scale_notes(r, m).val : r \in Canonical, m \in DOMAIN MODES}
        \cup {ExampleScale}

Calls ==
    {[NoCall EXCEPT !.fn = "get_note_at_position", !.note = n, !.fret = f] :
        n \in NoteInputs, f \in 0..MaxFret}
    \cup
    {[NoCall EXCEPT !.fn = "get_scale_notes", !.note = n, !.mode = m] :
        n \in NoteInputs, m \in DOMAIN MODES}
    \cup
    {[NoCall EXCEPT !.fn = "is_note_in_scale", !.note = n, !.scale_notes = s] :
        n \in NoteInputs, s \in ScaleInputs}
    \cup
    {[NoCall EXCEPT !.fn = "is_root", !.note = n, !.root_note = r] :
        n \in NoteInputs, r \in NoteInputs}

EngineInit ==
    /\ pc = "engine"
    /\ selected_note = <<>>
    /\ selected_mode = ""
    /\ scale_notes = Pending
    /\ string = 1
    /\ fret = 0
    /\ cells = [p \in Positions |-> BlankCell]
    /\ notes_line = Pending
    /\ call \in Calls
    /\ result = Pending

Apply_get_note_at_position ==
    /\ call.fn = "get_note_at_position"
    /\ result = Pending
    /\ result' = get_note_at_position(call.note, call.fret)
    /\ UNCHANGED <<appVars, call>>

Apply_get_scale_notes ==
    /\ call.fn = "get_scale_notes"
    /\ result = Pending
    /\ result' = get_scale_notes(call.note, call.mode)
    /\ UNCHANGED <<appVars, call>>

Apply_is_note_in_scale ==
    /\ call.fn = "is_note_in_scale"
    /\ result = Pending
    /\ result' = Return(is_note_in_scale(call.note, call.scale_notes))
    /\ UNCHANGED <<appVars, call>>

Apply_is_root ==
    /\ call.fn = "is_root"
    /\ result = Pending
    /\ result' = Return(is_root(call.note, call.root_note))
    /\ UNCHANGED <<appVars, call>>

EngineNext ==
    \/ Apply_get_note_at_position
    \/ Apply_get_scale_notes
    \/ Apply_is_note_in_scale
    \/ Apply_is_root

EngineSpec == EngineInit /\ [][EngineNext]_vars

-----------------------------------------------------------------------------
(* Properties *)

Done(fn) == call.fn = fn /\ result # Pending

\* the pitch class (0..11) of a canonical name, read off the chromatic table
PitchClass(n) == CHOOSE i \in 0..11 : NOTES[i + 1] = n

NoteOfClass(i) == NOTES[(i % 12) + 1]

Heptatonic ==
    {"Major (Ionian)", "Dorian", "Phrygian", "Lydian", "Mixolydian",
     "Minor (Aeolian)", "Locrian"}

\* the pitch classes of the scale on canonical root r in mode m
ScaleClasses(r, m) ==
    {(PitchClass(r) + MODES[m][k]) % 12 : k \in 1..Len(MODES[m])}

\* C1: every rendered fretboard position is highlighted (root or scale style)
\* exactly when its pitch class (index(string) + fret) mod 12 is a pitch class
\* of the selected scale.
C1_HighlightIffInScale ==
    \A p \in Positions :
        cells[p].style # "none" =>
            ((cells[p].style \in {"root", "scale"})
                <=> ((PitchClass(GUITAR_TUNING[p[1]]) + p[2]) % 12
                        \in ScaleClasses(selected_note, selected_mode)))

\* C2: when the scale list contains the enharmonic pair "X/Y", is_note_in_scale
\* is true for the queries "X/Y", "X" and "Y".
C2_EnharmonicMembership ==
    Done("is_note_in_scale") =>
        \A sp \in Spellings :
            (In(PairName(sp), call.scale_notes)
                /\ call.note \in {PairName(sp), sp[1], sp[2]})
            => result.val = TRUE

\* C3: a rendered position whose note is the root (is_root true) is also in the
\* scale and is rendered in the root style, never as a plain note.
C3_RootsRenderedAsRoots ==
    \A p \in Positions :
        cells[p].is_root => (cells[p].in_scale /\ cells[p].style = "root")

\* C4: for a canonical name p and a fret f, get_note_at_position(p, f) returns
\* NOTES[(index(p) + f) mod 12]; fret 0 returns p; ("E", 14) returns "F#/Gb".
C4_NoteAtPosition ==
    (Done("get_note_at_position") /\ call.note \in Canonical) =>
        /\ result = Return(NoteOfClass(PitchClass(call.note) + call.fret))
        /\ (call.fret = 0 => result.val = call.note)
        /\ (call.note = <<"E">> /\ call.fret = 14
                => result.val = <<"F", "#", "/", "G", "b">>)

C4_Witness ==
    /\ Done("get_note_at_position")
    /\ call.note = <<"E">>
    /\ call.fret = 14
    /\ result = Return(<<"F", "#", "/", "G", "b">>)

\* C5: for a canonical root r and a mode m, get_scale_notes(r, m) is the sequence
\* whose k-th element is NOTES[(index(r) + MODES[m][k]) mod 12], in interval
\* order; C major is C D E F G A B and A pentatonic minor is A C D E G.
C5_ScaleNotesInOrder ==
    (Done("get_scale_notes") /\ call.note \in Canonical) =>
        /\ Returned(result)
        /\ Len(result.val) = Len(MODES[call.mode])
        /\ \A k \in 1..Len(MODES[call.mode]) :
              result.val[k] = NoteOfClass(PitchClass(call.note) + MODES[call.mode][k])
        /\ (call.note = <<"C">> /\ call.mode = "Major (Ionian)"
              => result.val = << <<"C">>, <<"D">>, <<"E">>, <<"F">>, <<"G">>,
                                 <<"A">>, <<"B">> >>)
        /\ (call.note = <<"A">> /\ call.mode = "Pentatonic Minor"
              => result.val = << <<"A">>, <<"C">>, <<"D">>, <<"E">>, <<"G">> >>)

C5_Witness ==
    /\ Done("get_scale_notes")
    /\ call.note = <<"A">>
    /\ call.mode = "Pentatonic Minor"
    /\ result = Return(<< <<"A">>, <<"C">>, <<"D">>, <<"E">>, <<"G">> >>)

\* C6 as stated: the scale has 7 notes in the seven heptatonic modes and 5 in
\* Pentatonic Major, Pentatonic Minor and Blues.
C6_LengthsAsStated ==
    (Done("get_scale_notes") /\ call.note \in Canonical) =>
        /\ Returned(result)
        /\ Len(result.val) = IF call.mode \in Heptatonic THEN 7 ELSE 5

\* C6 amended: the scale has 7 notes in the seven heptatonic modes, 5 in
\* Pentatonic Major and Pentatonic Minor, and 6 in Blues.
C6_Lengths ==
    (Done("get_scale_notes") /\ call.note \in Canonical) =>
        /\ Returned(result)
        /\ Len(result.val) = IF call.mode \in Heptatonic THEN 7
                             ELSE IF call.mode = "Blues" THEN 6
                             ELSE 5

C6_Witness ==
    /\ Done("get_scale_notes")
    /\ call.note \in Canonical
    /\ call.mode = "Blues"
    /\ Returned(result)
    /\ Len(result.val) = 6

\* C7: get_note_at_position and get_scale_notes called with the bare first
\* component "X" of a pair "X/Y" return, without failing, what they return
\* for "X/Y".
C7_BareFirstComponent ==
    \A sp \in Spellings :
        /\ (Done("get_note_at_position") /\ call.note = sp[1]) =>
              /\ Returned(result)
              /\ result.val = NoteOfClass(PitchClass(PairName(sp)) + call.fret)
        /\ (Done("get_scale_notes") /\ call.note = sp[1]) =>
              /\ Returned(result)
              /\ Len(result.val) = Len(MODES[call.mode])
              /\ \A k \in 1..Len(MODES[call.mode]) :
                    result.val[k] =
                        NoteOfClass(PitchClass(PairName(sp)) + MODES[call.mode][k])

\* C8: a note name that is neither canonical nor the first half of a pair makes
\* get_note_at_position and get_scale_notes end in an error; a call returns a
\* result only when its note input is valid.
C8_InvalidRejected ==
    (Done("get_note_at_position") \/ Done("get_scale_notes")) =>
        (Returned(result) => call.note \in Canonical \cup FirstHalves)

\* C9: is_root(note, root) for a canonical note is true exactly when note equals
\* root or note is a pair "X/Y" and root is X or Y; for canonical roots that is
\* exactly when the two are the same pitch class, and for a bare root "X" or "Y"
\* it is true for the pair "X/Y" and for no other canonical note.
C9_IsRoot ==
    (Done("is_root") /\ call.note \in Canonical) =>
        /\ result.val =
              (\/ call.note = call.root_note
               \/ \E sp \in Spellings :
                     call.note = PairName(sp) /\ call.root_note \in {sp[1], sp[2]})
        /\ (call.root_note \in Canonical =>
              result.val = (PitchClass(call.note) = PitchClass(call.root_note)))
        /\ \A sp \in Spellings :
              call.root_note \in {sp[1], sp[2]} =>
                  result.val = (call.note = PairName(sp))
        /\ (call.note = <<"D">> /\ call.root_note = <<"C", "#", "/", "D", "b">>
              => result.val = FALSE)

C9_Witness ==
    /\ Done("is_root")
    /\ call.note = <<"C", "#", "/", "D", "b">>
    /\ call.root_note = <<"D", "b">>
    /\ result = Return(TRUE)

\* C10: every mode is a strictly increasing sequence in 0..11 starting at 0, and
\* for a canonical root r the sequence get_scale_notes(r, m) starts with r and
\* holds no note twice.
C10_ModesAndDistinctNotes ==
    /\ \A m \in DOMAIN MODES :
          /\ MODES[m][1] = 0
          /\ \A k \in 1..Len(MODES[m]) : MODES[m][k] \in 0..11
          /\ \A k \in 1..(Len(MODES[m]) - 1) : MODES[m][k] < MODES[m][k + 1]
    /\ (Done("get_scale_notes") /\ call.note \in Canonical) =>
          /\ Returned(result)
          /\ result.val[1] = call.note
          /\ \A j, k \in 1..Len(result.val) :
                j # k => result.val[j] # result.val[k]

C10_Witness ==
    /\ Done("get_scale_notes")
    /\ call.note = <<"B">>
    /\ call.mode = "Locrian"
    /\ Returned(result)
    /\ result.val[1] = <<"B">>
    /\ Len(result.val) = 7

====
